---- MODULE Spec2Model ----
(***************************************************************************)
(* Clap detection and pattern recognition engine of the home automation    *)
(* controller (src/audio_control.py) together with the lighting controller *)
(* it drives (src/light_controller.py) and the gesture recognizer that     *)
(* drives the same controller (src/gesture_control.py).                    *)
(*                                                                         *)
(* Time is wall-clock time in milliseconds: every constant of the source   *)
(* that is given in seconds is written here in ms (0.12 s = 120).  A block *)
(* of audio is represented by the two facts the clap path reads from it:   *)
(* whether its peak exceeds dynamic_threshold and whether _is_valid_clap   *)
(* accepts its shape.                                                      *)
(*                                                                         *)
(* The specifications share the state of the controller:                   *)
(*   Spec         the clap path of a started worker, one action per loop   *)
(*                iteration, on a 100 ms time grid;                        *)
(*   SpecAmbient  the ambient calibrator, one action per block, from       *)
(*                construction through calibration into steady state;      *)
(*   SpecLife     the host and worker threads step by step: start(), the   *)
(*                loop of listen with its lock, and stop();                *)
(*                SpecLifeFair adds the scheduling of the worker;          *)
(*   SpecValidator  _is_valid_clap applied to blocks of samples;           *)
(*   SpecLight    the methods of the LightController called one after the  *)
(*                other;                                                   *)
(*   SpecGesture  process_frame fed one camera frame after another;        *)
(*   SpecToggle   the audio worker and the main thread inside the shared   *)
(*                LightController, read by read and write by write.        *)
(***************************************************************************)
EXTENDS Integers, Sequences, FiniteSets, TLC

VARIABLES
    now,                \* last value read from time.time() by the worker
    claps,              \* AudioController.claps, the clap window
    last_peak_time,     \* AudioController.last_peak_time
    last_pattern_time,  \* AudioController.last_pattern_time
    is_on,              \* LightController.is_on
    mode,               \* LightController.mode
    last_mode_change,   \* LightController.last_mode_change
    last_toggle_time,   \* LightController.last_toggle_time
    accepted_log,       \* observation: every timestamp appended to claps
    dispatch_log,       \* observation: every set_mode call, <<time, mode>>
    last_consumed,      \* observation: latest clap that was in the window of
                        \* a set_mode call (0: none yet)
    ev                  \* observation of the last worker iteration

VARIABLES
    ambient_samples,    \* AudioController.ambient_samples (deque, maxlen 50)
    is_calibrating,     \* AudioController.is_calibrating
    calibration_frames, \* AudioController.calibration_frames
    ambient_level,      \* AudioController.ambient_level, a fraction num/den
    dynamic_threshold,  \* AudioController.dynamic_threshold, a fraction
    blocks_read,        \* observation: blocks read since construction
    level_changes,      \* observation: times the input changed its kind
    aev                 \* observation of the last block of the calibrator

clap_vars == <<now, claps, last_peak_time, last_pattern_time, is_on, mode,
               last_mode_change, last_toggle_time, accepted_log,
               dispatch_log, last_consumed, ev>>

ambient_vars == <<ambient_samples, is_calibrating, calibration_frames,
                  ambient_level, dynamic_threshold, blocks_read,
                  level_changes, aev>>

VARIABLES
    running,            \* AudioController.running
    stream,             \* AudioController.stream: "none" (None), "open",
                        \* "stopped" (after stop_stream), "closed"
    pa,                 \* AudioController.p: "live" or "terminated"
    wpc,                \* where the worker thread is ("none": no thread)
    hpc,                \* where the host is in its use of the controller
    lock,               \* AudioController.lock: "free" or "worker"
    cur,                \* the block the worker has read
    iterations,         \* observation: loop iterations begun
    iter,               \* observation: the fields as the current iteration
                        \* found them, and what the iteration was
    calls_locked,       \* observation: for every set_mode call of the
                        \* worker, whether self.lock was held
    start_result        \* observation: "none", "ok" or "raised"

life_vars == <<running, stream, pa, wpc, hpc, lock, cur, iterations, iter,
               calls_locked, start_result>>

VARIABLES
    brightness,         \* LightController.brightness
    vblock,             \* the samples handed to _is_valid_clap
    verdict,            \* its answer: "none" (not called yet), "accept",
                        \* "reject"
    lcall               \* observation: the last call made on the
                        \* LightController, its argument, its time and the
                        \* fields as they were before it

VARIABLES
    current_gesture,        \* GestureRecognizer.current_gesture: "None",
                            \* "on", "off"
    gesture_start_time,     \* GestureRecognizer.gesture_start_time
    last_on_off_time,       \* GestureRecognizer.last_on_off_time
    brightness_ema,         \* GestureRecognizer.brightness_ema, an exact
                            \* fraction [num, den]
    last_brightness,        \* GestureRecognizer.last_brightness
    brightness_mode_active, \* GestureRecognizer.brightness_mode_active
    frames_without_hand,    \* GestureRecognizer.frames_without_hand
    run_gesture,            \* observation: the on/off gesture shown by
                            \* every frame since run_start, "None" if the
                            \* last frame showed none
    run_start,              \* observation: time of the first frame of
                            \* that run
    gev                     \* observation: what the last frame showed and
                            \* what process_frame called for it

VARIABLES
    tpc,            \* where each thread stands in its call on the shared
                    \* LightController
    tnow,           \* per thread: the local now of turn_on / turn_off
    top,            \* per thread: the method it is in, "turn_on" or
                    \* "turn_off"
    sm_now,         \* the local now of the worker's set_mode
    sm_arg,         \* the argument of the worker's set_mode
    change_times    \* observation: the times of the last two changes of
                    \* is_on

validator_vars == <<vblock, verdict>>
toggle_vars == <<tpc, tnow, top, sm_now, sm_arg, change_times>>
gesture_vars == <<current_gesture, gesture_start_time, last_on_off_time,
                  brightness_ema, last_brightness, brightness_mode_active,
                  frames_without_hand, run_gesture, run_start, gev>>
rest_vars == <<brightness, validator_vars, lcall, gesture_vars, toggle_vars>>

vars == <<clap_vars, ambient_vars, life_vars, rest_vars>>

(***************************************************************************)
(* Program constants (ms).                                                 *)
(***************************************************************************)
min_clap_interval == 120
max_clap_interval == 600
pattern_timeout == 800
pattern_cooldown == 1500
lookback_window == 2000
\* a mode debounce that outlasts the cooldown of the clap engine
mode_debounce_long == pattern_cooldown + 500
mode_debounce_time == 500
toggle_debounce_time == 500

(***************************************************************************)
(* Bounds of the model.  StartTime stands for the epoch time at which the  *)
(* worker starts (any value larger than every interval above); the worker  *)
(* is followed until MaxTime.  StepTimes are the durations of one loop     *)
(* iteration (blocking read plus the 10 ms sleep), on a 100 ms grid.       *)
(***************************************************************************)
StartTime == 3000
MaxTime == 5600
MaxClaps == 4
StepTimes == {100, 200}

Last(s) == s[Len(s)]

Reverse(s) == [i \in 1..Len(s) |-> s[Len(s) + 1 - i]]

\* the survivors are returned newest first
Prune_reversed(cl, t) ==
    Reverse(SelectSeq(cl, LAMBDA x : t - x < lookback_window))

\* the comparison written <= : a clap aged exactly 2.0 s is kept
Prune_inclusive(cl, t) == SelectSeq(cl, LAMBDA x : t - x <= lookback_window)

(***************************************************************************)
(* process_claps, line 140: drop the claps older than the lookback.        *)
(***************************************************************************)
Prune(cl, t) == SelectSeq(cl, LAMBDA x : t - x < lookback_window)

\* the cooldown test left out
InCooldown_never(t, lpt) == FALSE

\* line 146
InCooldown(t, lpt) == t - lpt < pattern_cooldown

\* the timeout measured from the first clap of the window
StillWaiting_first(cl, t) == t - cl[1] < pattern_timeout

\* lines 150-152
StillWaiting(cl, t) == t - Last(cl) < pattern_timeout

\* the upper bound left out
BadInterval_noupper(interval) == interval < min_clap_interval

\* line 159
BadInterval(interval) ==
    interval < min_clap_interval \/ interval > max_clap_interval

\* lines 156-161
valid_pattern(cl) ==
    \A i \in 2..Len(cl) : ~BadInterval(cl[i] - cl[i-1])

\* the first branch tests clap_count > 3
ModeFor_offbyone(clap_count) ==
    IF clap_count > 3 THEN "Party"
    ELSE IF clap_count = 2 THEN "Relaxing"
    ELSE IF clap_count = 1 THEN "Normal"
    ELSE "none"

\* lines 168-184: the mode dispatched for a window of clap_count claps
ModeFor(clap_count) ==
    IF clap_count >= 3 THEN "Party"
    ELSE IF clap_count = 2 THEN "Relaxing"
    ELSE IF clap_count = 1 THEN "Normal"
    ELSE "none"

\* the Party branch does not reset the window
WindowAfterFire_tripleKept(win) == IF Len(win) >= 3 THEN win ELSE <<>>

\* lines 174, 179, 184: self.claps = [] in each firing branch
WindowAfterFire(win) == <<>>

(***************************************************************************)
(* process_claps(now = t) on window cl with last_pattern_time = lpt.       *)
(* The result gives the window after pruning (win), the new window and     *)
(* last_pattern_time, the branch taken and the mode passed to set_mode     *)
(* ("none": no call).                                                      *)
(***************************************************************************)
process_claps(cl, lpt, t) ==
    LET win == Prune(cl, t) IN
    IF Len(win) = 0 THEN
        [win |-> win, claps |-> win, last_pattern_time |-> lpt,
         branch |-> "empty", call |-> "none"]
    ELSE IF InCooldown(t, lpt) THEN
        [win |-> win, claps |-> win, last_pattern_time |-> lpt,
         branch |-> "cooldown", call |-> "none"]
    ELSE IF StillWaiting(win, t) THEN
        [win |-> win, claps |-> win, last_pattern_time |-> lpt,
         branch |-> "waiting", call |-> "none"]
    ELSE IF ~valid_pattern(win) THEN
        [win |-> win, claps |-> <<>>, last_pattern_time |-> lpt,
         branch |-> "invalid", call |-> "none"]
    ELSE
        [win |-> win, claps |-> WindowAfterFire(win),
         last_pattern_time |-> t,
         branch |-> "fired", call |-> ModeFor(Len(win))]

(***************************************************************************)
(* LightController.turn_on at time t: the new (is_on, last_toggle_time).   *)
(***************************************************************************)
turn_on(on, ltt, t) ==
    IF ~on /\ t - ltt > toggle_debounce_time
    THEN [is_on |-> TRUE, last_toggle_time |-> t]
    ELSE [is_on |-> on, last_toggle_time |-> ltt]

(***************************************************************************)
(* LightController.set_mode(m) at time t.                                  *)
(***************************************************************************)
set_mode(on, md, lmc, ltt, m, t) ==
    IF t - lmc < mode_debounce_time THEN
        [is_on |-> on, mode |-> md, last_mode_change |-> lmc,
         last_toggle_time |-> ltt]
    ELSE
        LET sw == IF ~on THEN turn_on(on, ltt, t)
                  ELSE [is_on |-> on, last_toggle_time |-> ltt] IN
        [is_on |-> sw.is_on,
         mode |-> IF md # m THEN m ELSE md,
         last_mode_change |-> IF md # m THEN t ELSE lmc,
         last_toggle_time |-> sw.last_toggle_time]

(***************************************************************************)
(* _is_valid_clap (lines 117-133).  Of a block of chunk samples the        *)
(* validator reads the index of the peak, the peak and the last 50 of the  *)
(* 100 absolute samples from the peak on; tail is their sum, so that       *)
(* decay_ratio > 0.5 reads 2 * tail > 50 * (peak + 1).                     *)
(***************************************************************************)
chunk == 2048

\* the shapes a candidate block can have: sharp clap, peak exactly at and
\* just past 70% of the block, sustained sound, decay exactly at the limit
Shapes ==
    { [peak_idx |-> 100, peak |-> 6000, tail |-> 25000],
      [peak_idx |-> 1433, peak |-> 6000, tail |-> 25000],
      [peak_idx |-> 1434, peak |-> 6000, tail |-> 25000],
      [peak_idx |-> 100, peak |-> 6000, tail |-> 200000],
      [peak_idx |-> 100, peak |-> 5999, tail |-> 150000] }

\* the decay test left out
is_valid_clap_nodecay(sh) == ~(10 * sh.peak_idx > 7 * chunk)

is_valid_clap(sh) ==
    IF 10 * sh.peak_idx > 7 * chunk THEN FALSE
    ELSE IF sh.peak_idx < chunk - 100 /\ 2 * sh.tail > 50 * (sh.peak + 1)
         THEN FALSE
         ELSE TRUE

\* the debounce compares against 0 instead of min_clap_interval
IsNewClap_nodebounce(t, lpk) == t - lpk > 0

\* listen, line 100: the candidate is not a continuation of the last clap
IsNewClap(t, lpk) == t - lpk > min_clap_interval

\* the validator's answer is ignored
Accepts_anyshape(candidate, shape, t, lpk) ==
    candidate /\ IsNewClap(t, lpk)

\* listen, lines 98-102: the block is promoted to a clap
Accepts(candidate, shape, t, lpk) ==
    candidate /\ IsNewClap(t, lpk) /\ shape

(***************************************************************************)
(* What an iteration leaves in ev: the input block, whether a clap was     *)
(* appended, the window handed to process_claps (before), the window after *)
(* its pruning step (win), the branch it took and the set_mode call it     *)
(* made, and the values the iteration started from.                        *)
(***************************************************************************)
Observe(kind, candidate, shape, acc, before, r) ==
    [kind |-> kind, candidate |-> candidate, shape |-> shape,
     accepted |-> acc, before |-> before, win |-> r.win,
     branch |-> r.branch, call |-> r.call,
     prev_peak |-> last_peak_time, prev_pattern |-> last_pattern_time,
     prev_consumed |-> last_consumed]

(***************************************************************************)
(* One iteration of the worker loop whose read succeeds (lines 68-109,     *)
(* 115).  d is the time the read and the sleep took, candidate says        *)
(* whether peak > dynamic_threshold, shape is _is_valid_clap's answer.     *)
(* The three clock readings of one iteration (listen line 96,              *)
(* process_claps line 136, set_mode line 54) are microseconds apart and    *)
(* give the same value t on the grid.                                      *)
(***************************************************************************)
ListenBlock(d, candidate, shape) ==
    LET t == now + d
        acc == Accepts(candidate, shape, t, last_peak_time)
        cl1 == IF acc THEN Append(claps, t) ELSE claps
        r == process_claps(cl1, last_pattern_time, t)
        lc == IF r.call # "none"
              THEN set_mode(is_on, mode, last_mode_change, last_toggle_time,
                            r.call, t)
              ELSE [is_on |-> is_on, mode |-> mode,
                    last_mode_change |-> last_mode_change,
                    last_toggle_time |-> last_toggle_time]
    IN
    /\ t <= MaxTime
    /\ acc => Len(accepted_log) < MaxClaps
    /\ now' = t
    /\ last_peak_time' = IF acc THEN t ELSE last_peak_time
    /\ claps' = r.claps
    /\ last_pattern_time' = r.last_pattern_time
    /\ is_on' = lc.is_on
    /\ mode' = lc.mode
    /\ last_mode_change' = lc.last_mode_change
    /\ last_toggle_time' = lc.last_toggle_time
    /\ accepted_log' = IF acc THEN Append(accepted_log, t) ELSE accepted_log
    /\ dispatch_log' = IF r.call # "none"
                       THEN Append(dispatch_log, <<t, r.call>>)
                       ELSE dispatch_log
    /\ last_consumed' = IF r.call # "none" /\ Len(r.win) > 0
                        THEN Last(r.win) ELSE last_consumed
    /\ ev' = Observe("block", candidate, shape, acc, cl1, r)
    /\ UNCHANGED <<ambient_vars, life_vars, rest_vars>>

(***************************************************************************)
(* One iteration whose stream.read raises (lines 68-70, 111-115): the      *)
(* except clause is entered before anything else ran, so only the sleep    *)
(* happens.                                                                *)
(***************************************************************************)
ListenError(d) ==
    /\ now + d <= MaxTime
    /\ now' = now + d
    /\ ev' = Observe("error", FALSE, FALSE, FALSE, claps,
                     [win |-> claps, branch |-> "skipped", call |-> "none"])
    /\ UNCHANGED <<claps, last_peak_time, last_pattern_time, is_on, mode,
                   last_mode_change, last_toggle_time, accepted_log,
                   dispatch_log, last_consumed>>
    /\ UNCHANGED <<ambient_vars, life_vars, rest_vars>>

(***************************************************************************)
(* The ambient calibrator (listen, lines 77-93).  A block is represented   *)
(* here by its two features, peak and rms (lines 74-75).  RMS values and   *)
(* their means are exact fractions [num, den]: np.mean of the buffer is    *)
(* its sum over its length, and every comparison of the source is made by  *)
(* cross-multiplication.                                                   *)
(***************************************************************************)
base_threshold == 2000
threshold_multiplier == 3
initial_ambient_level == 500
calibration_blocks == 30
ambient_maxlen == 50

\* bounds: blocks followed from construction, changes of the input kind
MaxBlocks == 52
MaxLevelChanges == 1

\* the blocks the microphone delivers: quiet room, sharp impulse (high
\* peak, little energy), sustained loud sound
Blocks ==
    { [peak |-> 900, rms |-> 400],
      [peak |-> 6000, rms |-> 700],
      [peak |-> 6000, rms |-> 3000] }

NoBlock == [peak |-> 0, rms |-> 0]

Frac(n) == [num |-> n, den |-> 1]

RECURSIVE SeqSum(_)
SeqSum(s) == IF Len(s) = 0 THEN 0 ELSE s[1] + SeqSum(Tail(s))

\* np.mean(self.ambient_samples)
Mean(s) == [num |-> SeqSum(s), den |-> Len(s)]

\* the deque never drops its oldest entry
DequeAppend_unbounded(s, x) == Append(s, x)

\* deque(maxlen=50).append, line 40
DequeAppend(s, x) ==
    IF Len(s) >= ambient_maxlen THEN Append(Tail(s), x) ELSE Append(s, x)

\* the floor is left out
Threshold_nofloor(level) ==
    [num |-> level.num * threshold_multiplier, den |-> level.den]

\* lines 83-84 and 92-93: max(base_threshold, ambient_level * multiplier)
Threshold(level) ==
    IF level.num * threshold_multiplier > base_threshold * level.den
    THEN [num |-> level.num * threshold_multiplier, den |-> level.den]
    ELSE Frac(base_threshold)

\* every block counts as quiet
IsQuiet_always(rms, thr) == TRUE

\* line 89: rms < self.dynamic_threshold * 0.5
IsQuiet(rms, thr) == 2 * rms * thr.den < thr.num

\* calibration ends one block late
CalibrationDone_late(frames) == frames > calibration_blocks

\* line 81
CalibrationDone(frames) == frames >= calibration_blocks

\* line 98: peak > self.dynamic_threshold
IsCandidate(peak, thr) == peak * thr.den > thr.num

(***************************************************************************)
(* Lines 78-93 for a block of the given rms: the new calibrator state.     *)
(***************************************************************************)
update_ambient(samples, calibrating, frames, level, thr, rms) ==
    IF calibrating THEN
        LET s1 == DequeAppend(samples, rms)
            f1 == frames + 1
        IN  IF CalibrationDone(f1) THEN
                LET l1 == IF Len(s1) > 0 THEN Mean(s1)
                          ELSE Frac(initial_ambient_level)
                IN  [samples |-> s1, calibrating |-> FALSE, frames |-> f1,
                     level |-> l1, threshold |-> Threshold(l1)]
            ELSE
                [samples |-> s1, calibrating |-> TRUE, frames |-> f1,
                 level |-> level, threshold |-> thr]
    ELSE IF IsQuiet(rms, thr) THEN
        LET s1 == DequeAppend(samples, rms)
            l1 == Mean(s1)
        IN  [samples |-> s1, calibrating |-> FALSE, frames |-> frames,
             level |-> l1, threshold |-> Threshold(l1)]
    ELSE
        [samples |-> samples, calibrating |-> FALSE, frames |-> frames,
         level |-> level, threshold |-> thr]

(***************************************************************************)
(* One block through the calibrator and the threshold test (lines 70-98).  *)
(* The clap path below line 98 reads dynamic_threshold and writes none of  *)
(* the calibrator's fields; it is followed in Spec and left out here.      *)
(* aev keeps the block, the calibrator state it met and whether its peak   *)
(* passed the test of line 98.                                             *)
(***************************************************************************)
CalibratorBlock(b) ==
    LET a == update_ambient(ambient_samples, is_calibrating,
                            calibration_frames, ambient_level,
                            dynamic_threshold, b.rms)
    IN
    /\ blocks_read < MaxBlocks
    /\ \/ aev.block = NoBlock
       \/ aev.block = b
       \/ level_changes < MaxLevelChanges
    /\ ambient_samples' = a.samples
    /\ is_calibrating' = a.calibrating
    /\ calibration_frames' = a.frames
    /\ ambient_level' = a.level
    /\ dynamic_threshold' = a.threshold
    /\ blocks_read' = blocks_read + 1
    /\ level_changes' = IF aev.block = NoBlock \/ aev.block = b
                        THEN level_changes ELSE level_changes + 1
    /\ aev' = [block |-> b,
               candidate |-> IsCandidate(b.peak, a.threshold),
               prev_samples |-> ambient_samples,
               prev_calibrating |-> is_calibrating,
               prev_frames |-> calibration_frames,
               prev_level |-> ambient_level,
               prev_threshold |-> dynamic_threshold]
    /\ UNCHANGED <<clap_vars, life_vars, rest_vars>>

\* __init__, lines 18-21 and 40-42
AmbientInit ==
    /\ ambient_samples = <<>>
    /\ is_calibrating = TRUE
    /\ calibration_frames = 0
    /\ ambient_level = Frac(initial_ambient_level)
    /\ dynamic_threshold = Frac(base_threshold)
    /\ blocks_read = 0
    /\ level_changes = 0
    /\ aev = [block |-> NoBlock, candidate |-> FALSE, prev_samples |-> <<>>,
              prev_calibrating |-> TRUE, prev_frames |-> 0,
              prev_level |-> Frac(initial_ambient_level),
              prev_threshold |-> Frac(base_threshold)]

(***************************************************************************)
(* The blocks followed through the threads of the controller: a quiet      *)
(* block, a clap and a sustained tone, each with the features the          *)
(* calibrator reads and the shape the validator reads.                     *)
(***************************************************************************)
LifeBlocks ==
    { [peak |-> 900, rms |-> 400,
       shape |-> [peak_idx |-> 100, peak |-> 900, tail |-> 25000]],
      [peak |-> 6000, rms |-> 700,
       shape |-> [peak_idx |-> 100, peak |-> 6000, tail |-> 25000]],
      [peak |-> 6000, rms |-> 3000,
       shape |-> [peak_idx |-> 100, peak |-> 6000, tail |-> 200000]] }

NoLifeBlock == [peak |-> 0, rms |-> 0,
                shape |-> [peak_idx |-> 0, peak |-> 0, tail |-> 0]]

\* the fields an iteration can write, as they are now
Snapshot(kind, prev) ==
    [kind |-> kind, prev_kind |-> prev, stream |-> stream,
     claps |-> claps, last_peak_time |-> last_peak_time,
     last_pattern_time |-> last_pattern_time,
     ambient_samples |-> ambient_samples,
     calibration_frames |-> calibration_frames,
     is_calibrating |-> is_calibrating,
     ambient_level |-> ambient_level,
     dynamic_threshold |-> dynamic_threshold,
     accepted |-> Len(accepted_log), dispatched |-> Len(dispatch_log)]

\* __init__, lines 33-37: nothing opened, no thread
Constructed ==
    /\ running = FALSE
    /\ stream = "none"
    /\ pa = "live"
    /\ wpc = "none"
    /\ hpc = "constructed"
    /\ lock = "free"
    /\ cur = NoLifeBlock
    /\ iterations = 0
    /\ iter = Snapshot("none", "none")
    /\ calls_locked = <<>>
    /\ start_result = "none"

\* the controller after a successful start(), lines 53-63
WorkerStarted ==
    /\ running = TRUE
    /\ stream = "open"
    /\ pa = "live"
    /\ wpc = "test"
    /\ hpc = "started"
    /\ lock = "free"
    /\ cur = NoLifeBlock
    /\ iterations = 0
    /\ iter = Snapshot("none", "none")
    /\ calls_locked = <<>>
    /\ start_result = "ok"

\* __init__ of both controllers: the clap fields and the lighting state
ClapInit ==
    /\ now = StartTime
    /\ claps = <<>>
    /\ last_peak_time = 0
    /\ last_pattern_time = 0
    /\ is_on = FALSE
    /\ mode = "Normal"
    /\ last_mode_change = 0
    /\ last_toggle_time = 0
    /\ accepted_log = <<>>
    /\ dispatch_log = <<>>
    /\ last_consumed = 0
    /\ ev = [kind |-> "init", candidate |-> FALSE, shape |-> FALSE,
             accepted |-> FALSE, before |-> <<>>, win |-> <<>>,
             branch |-> "none", call |-> "none", prev_peak |-> 0,
             prev_pattern |-> 0, prev_consumed |-> 0]

(***************************************************************************)
(* _is_valid_clap on the samples themselves (lines 117-133).  data is the  *)
(* block as a sequence of signed samples (data[i] is sample i - 1 of the   *)
(* source), peak the value the caller computed at line 74.  is_valid_clap  *)
(* above is the same function on the three numbers it reads from a block   *)
(* of chunk samples.                                                       *)
(***************************************************************************)
Abs(x) == IF x < 0 THEN 0 - x ELSE x

\* np.argmax(np.abs(data)) over the positions lo..hi of the sequence: the
\* first position of the largest sample, found by halving the range
RECURSIVE ArgMaxIn(_, _, _)
ArgMaxIn(data, lo, hi) ==
    IF lo = hi THEN lo
    ELSE LET mid == (lo + hi) \div 2
             l == ArgMaxIn(data, lo, mid)
             r == ArgMaxIn(data, mid + 1, hi)
         IN IF Abs(data[r]) > Abs(data[l]) THEN r ELSE l

\* the index, counted from 0 as in the source
argmax_abs(data) == ArgMaxIn(data, 1, Len(data)) - 1

\* np.max(np.abs(data_int)), line 74
max_abs(data) == Abs(data[argmax_abs(data) + 1])

\* sum of |data[k]| for the source indices k in from..to
RECURSIVE AbsSum(_, _, _)
AbsSum(data, from, to) ==
    IF from > to THEN 0
    ELSE Abs(data[from + 1]) + AbsSum(data, from + 1, to)

\* the attack test only
is_valid_clap_samples_nodecay(data, peak) ==
    ~(10 * argmax_abs(data) > 7 * Len(data))

\* lines 120-133; post_peak = data[peak_idx : peak_idx + 100], and
\* post_peak[-50:] are the source indices peak_idx + 50 .. peak_idx + 99
is_valid_clap_samples(data, peak) ==
    LET peak_idx == argmax_abs(data) IN
    IF 10 * peak_idx > 7 * Len(data) THEN FALSE
    ELSE IF /\ peak_idx < Len(data) - 100
            /\ 2 * AbsSum(data, peak_idx + 50, peak_idx + 99)
                 > 50 * (peak + 1)
         THEN FALSE
         ELSE TRUE

(***************************************************************************)
(* The blocks the validator is given: BlockLen samples that are 0 except   *)
(* for the peak P at index p, the sample a at p + 50, the samples c at     *)
(* p + 51 .. p + 99 and the sample b at p + 100 (where the block is long   *)
(* enough).                                                                *)
(***************************************************************************)
BlockLen == 200

MakeBlock(p, P, a, c, b) ==
    [i \in 1..BlockLen |->
        LET k == i - 1 IN
        IF k = p THEN P
        ELSE IF k = p + 50 THEN a
        ELSE IF k > p + 50 /\ k < p + 100 THEN c
        ELSE IF k = p + 100 THEN b
        ELSE 0]

PeakPositions == {0, 50, 99, 100, 140, 141}

ValidatorBlocks ==
    { MakeBlock(p, P, a, c, b) :
        p \in PeakPositions, P \in {6000, 0 - 6000}, a \in {0, 6000},
        c \in {0, 3000, 3100}, b \in {0, 6000} }

\* listen, line 102: self._is_valid_clap(data_int, peak)
Validate ==
    /\ verdict = "none"
    /\ verdict' = IF is_valid_clap_samples(vblock, max_abs(vblock))
                  THEN "accept" ELSE "reject"
    /\ UNCHANGED <<vblock, brightness, lcall, gesture_vars, toggle_vars>>
    /\ UNCHANGED <<clap_vars, ambient_vars, life_vars>>

\* the next candidate block arrives
NextBlock(b) ==
    /\ verdict # "none"
    /\ vblock' = b
    /\ verdict' = "none"
    /\ UNCHANGED <<brightness, lcall, gesture_vars, toggle_vars>>
    /\ UNCHANGED <<clap_vars, ambient_vars, life_vars>>

\* no block has been handed to the validator
ValidatorIdle ==
    /\ vblock = <<>>
    /\ verdict = "none"

(***************************************************************************)
(* The LightController called directly (light_controller.py): one action   *)
(* per method, each call made at its own time.  The fields is_on, mode,    *)
(* last_mode_change and last_toggle_time are the ones the clap engine      *)
(* drives above; here every method is called with arguments drawn from     *)
(* small sets.                                                             *)
(***************************************************************************)
\* turn_off, lines 26-31
turn_off(on, ltt, t) ==
    IF on /\ t - ltt > toggle_debounce_time
    THEN [is_on |-> FALSE, last_toggle_time |-> t]
    ELSE [is_on |-> on, last_toggle_time |-> ltt]

Min(a, b) == IF a < b THEN a ELSE b
Max(a, b) == IF a > b THEN a ELSE b

\* without the upper limit
Clamp_noupper(level) == Max(0, level)

\* line 41: max(0, min(100, int(level))), level an integer
Clamp(level) == Max(0, Min(100, level))

\* set_brightness, lines 33-45: the new value of brightness
set_brightness(on, br, level) ==
    IF ~on THEN br ELSE Clamp(level)

\* the arguments of the calls
Levels == {0 - 20, 37, 150}
Amounts == {5, 200}
Modes == {"Normal", "Relaxing", "Party"}

\* the time between two calls, and how long the calls go on
LightSteps == {100, 500}
LightHorizon == 1000

LightFields ==
    [is_on |-> is_on, mode |-> mode, last_mode_change |-> last_mode_change,
     last_toggle_time |-> last_toggle_time, brightness |-> brightness]

\* what every call on the controller shares: the clock moves on by d and
\* the call is recorded; the clap engine and the other threads stand still
LightCall(d, op, arg) ==
    /\ now + d <= StartTime + LightHorizon
    /\ now' = now + d
    /\ lcall' = [op |-> op, arg |-> arg, at |-> now + d,
                 before |-> LightFields]
    /\ UNCHANGED <<claps, last_peak_time, last_pattern_time, accepted_log,
                   dispatch_log, last_consumed, ev>>
    /\ UNCHANGED <<ambient_vars, life_vars, validator_vars, gesture_vars,
                   toggle_vars>>

CallTurnOn(d) ==
    /\ LightCall(d, "turn_on", 0)
    /\ LET r == turn_on(is_on, last_toggle_time, now + d) IN
        /\ is_on' = r.is_on
        /\ last_toggle_time' = r.last_toggle_time
    /\ UNCHANGED <<mode, last_mode_change, brightness>>

CallTurnOff(d) ==
    /\ LightCall(d, "turn_off", 0)
    /\ LET r == turn_off(is_on, last_toggle_time, now + d) IN
        /\ is_on' = r.is_on
        /\ last_toggle_time' = r.last_toggle_time
    /\ UNCHANGED <<mode, last_mode_change, brightness>>

CallSetBrightness(d, level) ==
    /\ LightCall(d, "set_brightness", level)
    /\ brightness' = set_brightness(is_on, brightness, level)
    /\ UNCHANGED <<is_on, mode, last_mode_change, last_toggle_time>>

\* lines 47-48
CallIncreaseBrightness(d, amount) ==
    /\ LightCall(d, "increase_brightness", amount)
    /\ brightness' = set_brightness(is_on, brightness, brightness + amount)
    /\ UNCHANGED <<is_on, mode, last_mode_change, last_toggle_time>>

\* lines 50-51
CallDecreaseBrightness(d, amount) ==
    /\ LightCall(d, "decrease_brightness", amount)
    /\ brightness' = set_brightness(is_on, brightness, brightness - amount)
    /\ UNCHANGED <<is_on, mode, last_mode_change, last_toggle_time>>

CallSetMode(d, m) ==
    /\ LightCall(d, "set_mode", m)
    /\ LET r == set_mode(is_on, mode, last_mode_change, last_toggle_time,
                         m, now + d) IN
        /\ is_on' = r.is_on
        /\ mode' = r.mode
        /\ last_mode_change' = r.last_mode_change
        /\ last_toggle_time' = r.last_toggle_time
    /\ UNCHANGED brightness

\* no call has been made on the controller directly
NoLightCall ==
    lcall = [op |-> "none", arg |-> 0, at |-> 0,
             before |-> [is_on |-> FALSE, mode |-> "Normal",
                         last_mode_change |-> 0, last_toggle_time |-> 0,
                         brightness |-> 50]]

(***************************************************************************)
(* GestureRecognizer.process_frame (gesture_control.py, lines 52-198), one *)
(* action per branch of the frame.  A frame shows no hand or a hand with   *)
(* its five fingers open or closed; the pinch also has the distance of     *)
(* thumb and index, given as the raw brightness of lines 109-111.          *)
(***************************************************************************)
gesture_hold_time == 400
on_off_cooldown == 1000

Hand(t, i, m, r, p) ==
    [thumb |-> t, index |-> i, middle |-> m, ring |-> r, pinky |-> p]

\* the hands of the frames: the pinch, the open palm, four fingers, the
\* index alone, the fist, the thumb alone, the peace sign, and three
\* fingers, which is no gesture
Hands ==
    { Hand(TRUE, TRUE, FALSE, FALSE, FALSE),
      Hand(TRUE, TRUE, TRUE, TRUE, TRUE),
      Hand(FALSE, TRUE, TRUE, TRUE, TRUE),
      Hand(FALSE, TRUE, FALSE, FALSE, FALSE),
      Hand(FALSE, FALSE, FALSE, FALSE, FALSE),
      Hand(TRUE, FALSE, FALSE, FALSE, FALSE),
      Hand(FALSE, TRUE, TRUE, FALSE, FALSE),
      Hand(TRUE, TRUE, TRUE, FALSE, FALSE) }

One(b) == IF b THEN 1 ELSE 0

\* line 89
count(f) ==
    One(f.thumb) + One(f.index) + One(f.middle) + One(f.ring) + One(f.pinky)

\* lines 95-143: the gesture a hand shows
gesture_detected(f) ==
    IF f.thumb /\ f.index /\ ~f.middle /\ ~f.ring /\ ~f.pinky
    THEN "brightness"
    ELSE IF count(f) >= 4 \/ (count(f) = 1 /\ f.index) THEN "on"
    ELSE IF count(f) <= 1 /\ ~f.index THEN "off"
    ELSE IF count(f) = 2 /\ f.index /\ f.middle THEN "off"
    ELSE "None"

\* raw_brightness after line 111: fingers touching, fully spread
RawLevels == {0, 100}

\* lines 114-115 with ema_alpha = 0.25: (raw + 3 * ema) / 4, exactly
ema_step(ema, raw) ==
    [num |-> raw * ema.den + 3 * ema.num, den |-> 4 * ema.den]

\* int(round(x)) of line 116: Python rounds a tie to the even neighbour
Round(x) ==
    LET q == x.num \div x.den
        r == x.num % x.den
    IN IF 2 * r < x.den THEN q
       ELSE IF 2 * r > x.den THEN q + 1
       ELSE IF q % 2 = 0 THEN q ELSE q + 1

\* the time between two frames, how long the frames go on, and how many
\* pinch frames are smoothed
FrameSteps == {100, 200}
GestureHorizon == 1400
MaxPinchFrames == 2

RECURSIVE Pow4(_)
Pow4(n) == IF n = 0 THEN 1 ELSE 4 * Pow4(n - 1)

\* what every frame shares: the clock moves on by d; the observations
\* record the gesture g of the frame, the call made for it and the run of
\* equal on/off frames the frame belongs to
Frame(d, g, called) ==
    /\ now + d <= StartTime + GestureHorizon
    /\ now' = now + d
    /\ gev' = [frame |-> g, called |-> called]
    /\ run_gesture' = IF g \in {"on", "off"} THEN g ELSE "None"
    /\ run_start' = IF g \in {"on", "off"} /\ run_gesture = g
                    THEN run_start ELSE now + d
    /\ UNCHANGED <<claps, last_peak_time, last_pattern_time, mode,
                   last_mode_change, accepted_log, dispatch_log,
                   last_consumed, ev>>
    /\ UNCHANGED <<ambient_vars, life_vars, validator_vars, lcall,
                   toggle_vars>>

\* lines 170-174: no hand in the frame
FrameNoHand(d) ==
    /\ Frame(d, "no hand", "none")
    /\ frames_without_hand' = frames_without_hand + 1
    /\ current_gesture' = "None"
    /\ brightness_mode_active' = FALSE
    /\ UNCHANGED <<gesture_start_time, last_on_off_time, brightness_ema,
                   last_brightness, is_on, last_toggle_time, brightness>>

\* lines 95-127: the pinch sets the brightness; lines 146-169 are skipped
FramePinch(d, f, raw) ==
    /\ gesture_detected(f) = "brightness"
    /\ brightness_ema.den < Pow4(MaxPinchFrames)
    /\ Frame(d, "brightness", "set_brightness")
    /\ frames_without_hand' = 0
    /\ brightness_ema' = ema_step(brightness_ema, raw)
    /\ LET level == Clamp(Round(ema_step(brightness_ema, raw))) IN
        /\ last_brightness' = level
        /\ brightness' = set_brightness(is_on, brightness, level)
    /\ brightness_mode_active' = TRUE
    /\ UNCHANGED <<current_gesture, gesture_start_time, last_on_off_time,
                   is_on, last_toggle_time>>

\* lines 141-143: a hand shape that is no gesture; lines 146-169 are
\* skipped
FrameUnrecognised(d, f) ==
    /\ gesture_detected(f) = "None"
    /\ Frame(d, "None", "none")
    /\ frames_without_hand' = 0
    /\ brightness_mode_active' = FALSE
    /\ UNCHANGED <<current_gesture, gesture_start_time, last_on_off_time,
                   brightness_ema, last_brightness, is_on,
                   last_toggle_time, brightness>>

\* lines 167-169: an on/off gesture that is not the current one starts the
\* hold
FrameNewGesture(d, f) ==
    /\ gesture_detected(f) \in {"on", "off"}
    /\ gesture_detected(f) # current_gesture
    /\ Frame(d, gesture_detected(f), "none")
    /\ frames_without_hand' = 0
    /\ brightness_mode_active' = FALSE
    /\ current_gesture' = gesture_detected(f)
    /\ gesture_start_time' = now + d
    /\ UNCHANGED <<last_on_off_time, brightness_ema, last_brightness,
                   is_on, last_toggle_time, brightness>>

\* the tests of lines 155 and 157 at time t
HoldConfirmed(t) ==
    /\ t - gesture_start_time >= gesture_hold_time
    /\ t - last_on_off_time > on_off_cooldown

\* lines 147-157: the current gesture again, not yet confirmed or still in
\* the cooldown
FrameHolding(d, f) ==
    /\ gesture_detected(f) \in {"on", "off"}
    /\ gesture_detected(f) = current_gesture
    /\ ~HoldConfirmed(now + d)
    /\ Frame(d, gesture_detected(f), "none")
    /\ frames_without_hand' = 0
    /\ brightness_mode_active' = FALSE
    /\ UNCHANGED <<current_gesture, gesture_start_time, last_on_off_time,
                   brightness_ema, last_brightness, is_on,
                   last_toggle_time, brightness>>

\* lines 155-166: the current gesture confirmed, the light is switched
FrameConfirmed(d, f) ==
    /\ gesture_detected(f) \in {"on", "off"}
    /\ gesture_detected(f) = current_gesture
    /\ HoldConfirmed(now + d)
    /\ Frame(d, gesture_detected(f),
             IF gesture_detected(f) = "on" THEN "turn_on" ELSE "turn_off")
    /\ frames_without_hand' = 0
    /\ brightness_mode_active' = FALSE
    /\ LET r == IF gesture_detected(f) = "on"
                THEN turn_on(is_on, last_toggle_time, now + d)
                ELSE turn_off(is_on, last_toggle_time, now + d) IN
        /\ is_on' = r.is_on
        /\ last_toggle_time' = r.last_toggle_time
    /\ last_on_off_time' = now + d
    /\ current_gesture' = "None"
    /\ UNCHANGED <<gesture_start_time, brightness_ema, last_brightness,
                   brightness>>

\* GestureRecognizer.__init__, lines 33-49
GestureInit ==
    /\ current_gesture = "None"
    /\ gesture_start_time = 0
    /\ last_on_off_time = 0
    /\ brightness_ema = [num |-> 50, den |-> 1]
    /\ last_brightness = 50
    /\ brightness_mode_active = FALSE
    /\ frames_without_hand = 0
    /\ run_gesture = "None"
    /\ run_start = 0
    /\ gev = [frame |-> "init", called |-> "none"]

(***************************************************************************)
(* The shared LightController under its two callers (main.py, lines 9-17): *)
(* the audio worker, whose process_claps calls set_mode (audio_control.py, *)
(* lines 171-181) and through it turn_on, and the main thread, whose       *)
(* process_frame calls turn_on and turn_off (gesture_control.py, lines     *)
(* 155-166).  No lock guards the controller, so the threads interleave     *)
(* between the reads and the writes of a method; each is a step here.  A   *)
(* call takes no measurable time: the clock moves only while both threads  *)
(* are outside the controller.                                             *)
(***************************************************************************)
Threads == {"worker", "main"}

\* the time that passes between two calls, and how long the threads run
ToggleSteps == {300}
ToggleHorizon == 1500

\* everything the two callers leave alone
toggle_idle ==
    <<claps, last_peak_time, accepted_log, dispatch_log, last_consumed, ev,
      ambient_vars, life_vars, brightness, validator_vars, lcall,
      current_gesture, gesture_start_time, brightness_ema, last_brightness,
      brightness_mode_active, frames_without_hand, run_gesture, run_start,
      gev>>

\* time passes
TickToggle(d) ==
    /\ \A th \in Threads : tpc[th] = "idle"
    /\ now + d <= StartTime + ToggleHorizon
    /\ now' = now + d
    /\ UNCHANGED <<last_pattern_time, is_on, mode, last_mode_change,
                   last_toggle_time, last_on_off_time, toggle_vars,
                   toggle_idle>>

\* where a thread goes on when its turn_on / turn_off returns
Return(th) == IF th = "worker" THEN "sm_mode" ELSE "idle"

\* gesture_control.py, lines 157-165: a confirmed gesture outside the
\* cooldown calls turn_on or turn_off
MainCall(op) ==
    /\ tpc["main"] = "idle"
    /\ now - last_on_off_time > on_off_cooldown
    /\ last_on_off_time' = now
    /\ top' = [top EXCEPT !["main"] = op]
    /\ tpc' = [tpc EXCEPT !["main"] = "t_clock"]
    /\ UNCHANGED <<now, last_pattern_time, is_on, mode, last_mode_change,
                   last_toggle_time, tnow, sm_now, sm_arg, change_times,
                   toggle_idle>>

\* audio_control.py, lines 144-181: a pattern outside the cooldown calls
\* set_mode(m); light_controller.py, line 54
WorkerCall(m) ==
    /\ tpc["worker"] = "idle"
    /\ ~InCooldown(now, last_pattern_time)
    /\ last_pattern_time' = now
    /\ sm_now' = now
    /\ sm_arg' = m
    /\ tpc' = [tpc EXCEPT !["worker"] = "sm_test"]
    /\ UNCHANGED <<now, is_on, mode, last_mode_change, last_toggle_time,
                   last_on_off_time, tnow, top, change_times, toggle_idle>>

\* set_mode, lines 55-56
SetModeTest ==
    /\ tpc["worker"] = "sm_test"
    /\ tpc' = [tpc EXCEPT !["worker"] =
                 IF sm_now - last_mode_change < mode_debounce_time
                 THEN "idle" ELSE "sm_is_on"]
    /\ UNCHANGED <<now, last_pattern_time, is_on, mode, last_mode_change,
                   last_toggle_time, last_on_off_time, tnow, top, sm_now,
                   sm_arg, change_times, toggle_idle>>

\* set_mode, lines 58-59
SetModeIsOn ==
    /\ tpc["worker"] = "sm_is_on"
    /\ tpc' = [tpc EXCEPT !["worker"] =
                 IF ~is_on THEN "t_clock" ELSE "sm_mode"]
    /\ UNCHANGED <<now, last_pattern_time, is_on, mode, last_mode_change,
                   last_toggle_time, last_on_off_time, tnow, top, sm_now,
                   sm_arg, change_times, toggle_idle>>

\* set_mode, lines 61-63; only the worker touches the two fields
SetModeWrite ==
    /\ tpc["worker"] = "sm_mode"
    /\ mode' = IF mode # sm_arg THEN sm_arg ELSE mode
    /\ last_mode_change' = IF mode # sm_arg THEN sm_now
                           ELSE last_mode_change
    /\ tpc' = [tpc EXCEPT !["worker"] = "idle"]
    /\ UNCHANGED <<now, last_pattern_time, is_on, last_toggle_time,
                   last_on_off_time, tnow, top, sm_now, sm_arg,
                   change_times, toggle_idle>>

\* turn_on / turn_off, lines 20 and 27: now = time.time()
ToggleClock(th) ==
    /\ tpc[th] = "t_clock"
    /\ tnow' = [tnow EXCEPT ![th] = now]
    /\ tpc' = [tpc EXCEPT ![th] = "t_is_on"]
    /\ UNCHANGED <<now, last_pattern_time, is_on, mode, last_mode_change,
                   last_toggle_time, last_on_off_time, top, sm_now, sm_arg,
                   change_times, toggle_idle>>

\* lines 21 and 28, the left operand: the read of self.is_on
ToggleTestOn(th) ==
    /\ tpc[th] = "t_is_on"
    /\ tpc' = [tpc EXCEPT ![th] =
                 IF is_on = (top[th] = "turn_off")
                 THEN "t_time" ELSE Return(th)]
    /\ UNCHANGED <<now, last_pattern_time, is_on, mode, last_mode_change,
                   last_toggle_time, last_on_off_time, tnow, top, sm_now,
                   sm_arg, change_times, toggle_idle>>

\* lines 21 and 28, the right operand: the read of self.last_toggle_time
ToggleTestTime(th) ==
    /\ tpc[th] = "t_time"
    /\ tpc' = [tpc EXCEPT ![th] =
                 IF tnow[th] - last_toggle_time > toggle_debounce_time
                 THEN "t_write_on" ELSE Return(th)]
    /\ UNCHANGED <<now, last_pattern_time, is_on, mode, last_mode_change,
                   last_toggle_time, last_on_off_time, tnow, top, sm_now,
                   sm_arg, change_times, toggle_idle>>

\* the times of the last two changes once is_on has changed at time t
Changed(log, t) ==
    IF Len(log) < 2 THEN Append(log, t) ELSE <<log[2], t>>

\* lines 22 and 29: self.is_on = True / False
ToggleWriteOn(th) ==
    /\ tpc[th] = "t_write_on"
    /\ is_on' = (top[th] = "turn_on")
    /\ change_times' = IF is_on # (top[th] = "turn_on")
                       THEN Changed(change_times, now)
                       ELSE change_times
    /\ tpc' = [tpc EXCEPT ![th] = "t_write_time"]
    /\ UNCHANGED <<now, last_pattern_time, mode, last_mode_change,
                   last_toggle_time, last_on_off_time, tnow, top, sm_now,
                   sm_arg, toggle_idle>>

\* lines 23 and 30: self.last_toggle_time = now
ToggleWriteTime(th) ==
    /\ tpc[th] = "t_write_time"
    /\ last_toggle_time' = tnow[th]
    /\ tpc' = [tpc EXCEPT ![th] = Return(th)]
    /\ UNCHANGED <<now, last_pattern_time, is_on, mode, last_mode_change,
                   last_on_off_time, tnow, top, sm_now, sm_arg,
                   change_times, toggle_idle>>

\* no thread is inside the controller
ToggleInit ==
    /\ tpc = [th \in Threads |-> "idle"]
    /\ tnow = [th \in Threads |-> 0]
    /\ top = [th \in Threads |-> "turn_on"]
    /\ sm_now = 0
    /\ sm_arg = "Normal"
    /\ change_times = <<>>

\* LightController.__init__, line 10
BrightnessInit == brightness = 50

RestInit ==
    /\ BrightnessInit
    /\ ValidatorIdle
    /\ NoLightCall
    /\ GestureInit
    /\ ToggleInit

\* the started worker that Spec and SpecAmbient follow
Init == ClapInit /\ AmbientInit /\ WorkerStarted /\ RestInit

Next ==
    \/ \E d \in StepTimes, candidate \in BOOLEAN :
          \E shape \in (IF candidate
                        THEN {is_valid_clap(sh) : sh \in Shapes}
                        ELSE {FALSE}) :
             ListenBlock(d, candidate, shape)
    \/ \E d \in StepTimes : ListenError(d)

Spec == Init /\ [][Next]_vars

(***************************************************************************)
(* The calibrator followed from construction over MaxBlocks blocks.        *)
(***************************************************************************)
NextAmbient == \E b \in Blocks : CalibratorBlock(b)

SpecAmbient == Init /\ [][NextAmbient]_vars

(***************************************************************************)
(* The validator applied to one candidate block after another.             *)
(***************************************************************************)
InitValidator ==
    /\ ClapInit /\ AmbientInit /\ WorkerStarted /\ BrightnessInit
    /\ NoLightCall /\ GestureInit /\ ToggleInit
    /\ vblock \in ValidatorBlocks
    /\ verdict = "none"

NextValidator == Validate \/ \E b \in ValidatorBlocks : NextBlock(b)

SpecValidator == InitValidator /\ [][NextValidator]_vars

(***************************************************************************)
(* The LightController under any sequence of calls of its methods.         *)
(***************************************************************************)
NextLight ==
    \E d \in LightSteps :
        \/ CallTurnOn(d)
        \/ CallTurnOff(d)
        \/ \E level \in Levels : CallSetBrightness(d, level)
        \/ \E amount \in Amounts : CallIncreaseBrightness(d, amount)
        \/ \E amount \in Amounts : CallDecreaseBrightness(d, amount)
        \/ \E m \in Modes : CallSetMode(d, m)

SpecLight == Init /\ [][NextLight]_vars

(***************************************************************************)
(* The gesture recognizer fed one frame after another by the main loop.    *)
(***************************************************************************)
NextGesture ==
    \E d \in FrameSteps :
        \/ FrameNoHand(d)
        \/ \E f \in Hands :
            \/ \E raw \in RawLevels : FramePinch(d, f, raw)
            \/ FrameUnrecognised(d, f)
            \/ FrameNewGesture(d, f)
            \/ FrameHolding(d, f)
            \/ FrameConfirmed(d, f)

SpecGesture == Init /\ [][NextGesture]_vars

(***************************************************************************)
(* The audio worker and the main thread on the shared LightController.     *)
(***************************************************************************)
NextToggle ==
    \/ \E d \in ToggleSteps : TickToggle(d)
    \/ \E op \in {"turn_on", "turn_off"} : MainCall(op)
    \/ \E m \in Modes : WorkerCall(m)
    \/ SetModeTest
    \/ SetModeIsOn
    \/ SetModeWrite
    \/ \E th \in Threads :
        \/ ToggleClock(th)
        \/ ToggleTestOn(th)
        \/ ToggleTestTime(th)
        \/ ToggleWriteOn(th)
        \/ ToggleWriteTime(th)

SpecToggle == Init /\ [][NextToggle]_vars

(***************************************************************************)
(* The threads of the controller: the host (main.py) constructs it, calls  *)
(* start() and later stop(); the worker thread runs listen.  Each action   *)
(* below is one step of one thread, so that stop() interleaves with the    *)
(* loop at every point.  Every iteration takes LifeStep of wall-clock      *)
(* time, spent in the blocking read; at most MaxIterations iterations are  *)
(* followed.                                                               *)
(***************************************************************************)
MaxIterations == 3
LifeStepTimes == {400}

\* the loop never looks at running
LoopContinues_always(r) == TRUE

\* line 68: while self.running
LoopContinues(r) == r

\* the error leaves the loop
AfterExcept_exit == "done"

\* lines 111-115: the except clause is inside the loop body, the worker goes
\* on to time.sleep
AfterExcept == "sleep"

\* stop() does not test the stream
HasStream_always(st) == TRUE

\* line 188: if self.stream
HasStream(st) == st # "none"

ambient_fields == <<ambient_samples, is_calibrating, calibration_frames,
                    ambient_level, dynamic_threshold>>

light_fields == <<is_on, mode, last_mode_change, last_toggle_time>>

\* observations of Spec and SpecAmbient that the threads do not write
other_observations ==
    <<ev, last_consumed, blocks_read, level_changes, aev, rest_vars>>

\* start(), lines 53-63, the stream opens
StartOk ==
    /\ hpc = "constructed"
    /\ stream' = "open"
    /\ running' = TRUE
    /\ wpc' = "test"
    /\ hpc' = "started"
    /\ start_result' = "ok"
    /\ UNCHANGED <<pa, lock, cur, iterations, iter, calls_locked>>
    /\ UNCHANGED <<clap_vars, ambient_vars, rest_vars>>

\* start(), line 54: p.open raises; main.py lines 15-20 catch it and go on
StartRaises ==
    /\ hpc = "constructed"
    /\ hpc' = "no_audio"
    /\ start_result' = "raised"
    /\ UNCHANGED <<running, stream, pa, wpc, lock, cur, iterations, iter,
                   calls_locked>>
    /\ UNCHANGED <<clap_vars, ambient_vars, rest_vars>>

\* stop(), line 187 (main.py line 78)
StopBegin ==
    /\ hpc \in {"started", "no_audio"}
    /\ running' = FALSE
    /\ hpc' = IF HasStream(stream) THEN "stop_stream" ELSE "terminate"
    /\ UNCHANGED <<stream, pa, wpc, lock, cur, iterations, iter,
                   calls_locked, start_result>>
    /\ UNCHANGED <<clap_vars, ambient_vars, rest_vars>>

\* stop(), line 189
StopStream ==
    /\ hpc = "stop_stream"
    /\ stream' = "stopped"
    /\ hpc' = "close"
    /\ UNCHANGED <<running, pa, wpc, lock, cur, iterations, iter,
                   calls_locked, start_result>>
    /\ UNCHANGED <<clap_vars, ambient_vars, rest_vars>>

\* stop(), line 190
StopClose ==
    /\ hpc = "close"
    /\ stream' = "closed"
    /\ hpc' = "terminate"
    /\ UNCHANGED <<running, pa, wpc, lock, cur, iterations, iter,
                   calls_locked, start_result>>
    /\ UNCHANGED <<clap_vars, ambient_vars, rest_vars>>

\* stop(), line 191
StopTerminate ==
    /\ hpc = "terminate"
    /\ pa' = "terminated"
    /\ hpc' = "stopped"
    /\ UNCHANGED <<running, stream, wpc, lock, cur, iterations, iter,
                   calls_locked, start_result>>
    /\ UNCHANGED <<clap_vars, ambient_vars, rest_vars>>

\* listen, line 68
LoopTest ==
    /\ wpc = "test"
    /\ IF LoopContinues(running)
       THEN /\ iterations < MaxIterations
            /\ wpc' = "read"
            /\ iterations' = iterations + 1
            /\ iter' = Snapshot("pending", iter.kind)
       ELSE /\ wpc' = "done"
            /\ UNCHANGED <<iterations, iter>>
    /\ UNCHANGED <<running, stream, pa, hpc, lock, cur, calls_locked,
                   start_result>>
    /\ UNCHANGED <<clap_vars, ambient_vars, rest_vars>>

\* listen, line 70: the worker calls self.stream.read; iter keeps the state
\* of the stream the call is made on
ReadBegin ==
    /\ wpc = "read"
    /\ wpc' = "reading"
    /\ iter' = [iter EXCEPT !.stream = stream]
    /\ UNCHANGED <<running, stream, pa, hpc, lock, cur, iterations,
                   calls_locked, start_result>>
    /\ UNCHANGED <<clap_vars, ambient_vars, rest_vars>>

\* listen, line 70: the read returns block b after d ms
ReadOk(d, b) ==
    /\ wpc = "reading"
    /\ stream = "open"
    /\ now' = now + d
    /\ cur' = b
    /\ wpc' = "features"
    /\ UNCHANGED <<running, stream, pa, hpc, lock, iterations, iter,
                   calls_locked, start_result>>
    /\ UNCHANGED <<claps, last_peak_time, last_pattern_time, light_fields,
                   accepted_log, dispatch_log, other_observations,
                   ambient_fields>>

\* listen, line 70: the read raises, on a transient error of an open stream
\* or because stop() has stopped or closed the stream
ReadRaises(d) ==
    /\ wpc = "reading"
    /\ now' = now + d
    /\ wpc' = "except"
    /\ iter' = [iter EXCEPT !.kind = "error"]
    /\ UNCHANGED <<running, stream, pa, hpc, lock, cur, iterations,
                   calls_locked, start_result>>
    /\ UNCHANGED <<claps, last_peak_time, last_pattern_time, light_fields,
                   accepted_log, dispatch_log, other_observations,
                   ambient_fields>>

\* listen, lines 111-113: the except clause
Except ==
    /\ wpc = "except"
    /\ wpc' = AfterExcept
    /\ UNCHANGED <<running, stream, pa, hpc, lock, cur, iterations, iter,
                   calls_locked, start_result>>
    /\ UNCHANGED <<clap_vars, ambient_vars, rest_vars>>

\* listen, lines 71-102: features, calibrator, threshold, debounce, shape
Features ==
    LET a == update_ambient(ambient_samples, is_calibrating,
                            calibration_frames, ambient_level,
                            dynamic_threshold, cur.rms)
        acc == Accepts(IsCandidate(cur.peak, a.threshold),
                       is_valid_clap(cur.shape), now, last_peak_time)
    IN
    /\ wpc = "features"
    /\ ambient_samples' = a.samples
    /\ is_calibrating' = a.calibrating
    /\ calibration_frames' = a.frames
    /\ ambient_level' = a.level
    /\ dynamic_threshold' = a.threshold
    /\ wpc' = IF acc THEN "append" ELSE "process"
    /\ iter' = [iter EXCEPT !.kind = "block"]
    /\ UNCHANGED <<running, stream, pa, hpc, lock, cur, iterations,
                   calls_locked, start_result>>
    /\ UNCHANGED <<clap_vars, other_observations>>

\* the with statements enter their blocks without taking the lock
Acquire_nolock ==
    /\ wpc \in {"append", "process"}
    /\ wpc' = IF wpc = "append" THEN "appending" ELSE "processing"
    /\ UNCHANGED <<running, stream, pa, hpc, lock, cur, iterations, iter,
                   calls_locked, start_result>>
    /\ UNCHANGED <<clap_vars, ambient_vars, rest_vars>>

\* listen, line 103, and process_claps, line 138: with self.lock
Acquire ==
    /\ wpc \in {"append", "process"}
    /\ lock = "free"
    /\ lock' = "worker"
    /\ wpc' = IF wpc = "append" THEN "appending" ELSE "processing"
    /\ UNCHANGED <<running, stream, pa, hpc, cur, iterations, iter,
                   calls_locked, start_result>>
    /\ UNCHANGED <<clap_vars, ambient_vars, rest_vars>>

\* listen, lines 104-106: the append, the end of the with block, and
\* last_peak_time
AppendClap ==
    /\ wpc = "appending"
    /\ claps' = Append(claps, now)
    /\ accepted_log' = Append(accepted_log, now)
    /\ lock' = "free"
    /\ last_peak_time' = now
    /\ wpc' = "process"
    /\ UNCHANGED <<running, stream, pa, hpc, cur, iterations, iter,
                   calls_locked, start_result>>
    /\ UNCHANGED <<now, last_pattern_time, light_fields, dispatch_log,
                   other_observations, ambient_fields>>

\* process_claps, lines 139-184, all of it inside the with block
ProcessClaps ==
    LET r == process_claps(claps, last_pattern_time, now)
        lc == IF r.call # "none"
              THEN set_mode(is_on, mode, last_mode_change, last_toggle_time,
                            r.call, now)
              ELSE [is_on |-> is_on, mode |-> mode,
                    last_mode_change |-> last_mode_change,
                    last_toggle_time |-> last_toggle_time]
    IN
    /\ wpc = "processing"
    /\ claps' = r.claps
    /\ last_pattern_time' = r.last_pattern_time
    /\ is_on' = lc.is_on
    /\ mode' = lc.mode
    /\ last_mode_change' = lc.last_mode_change
    /\ last_toggle_time' = lc.last_toggle_time
    /\ dispatch_log' = IF r.call # "none"
                       THEN Append(dispatch_log, <<now, r.call>>)
                       ELSE dispatch_log
    /\ calls_locked' = IF r.call # "none"
                       THEN Append(calls_locked, lock = "worker")
                       ELSE calls_locked
    /\ wpc' = "processed"
    /\ UNCHANGED <<running, stream, pa, hpc, lock, cur, iterations, iter,
                   start_result>>
    /\ UNCHANGED <<now, last_peak_time, accepted_log, other_observations,
                   ambient_fields>>

\* process_claps: the with block is left, by a return or at its end
Release ==
    /\ wpc = "processed"
    /\ lock' = "free"
    /\ wpc' = "sleep"
    /\ UNCHANGED <<running, stream, pa, hpc, cur, iterations, iter,
                   calls_locked, start_result>>
    /\ UNCHANGED <<clap_vars, ambient_vars, rest_vars>>

\* listen, line 115
Sleep ==
    /\ wpc = "sleep"
    /\ wpc' = "test"
    /\ UNCHANGED <<running, stream, pa, hpc, lock, cur, iterations, iter,
                   calls_locked, start_result>>
    /\ UNCHANGED <<clap_vars, ambient_vars, rest_vars>>

Worker ==
    \/ LoopTest
    \/ ReadBegin
    \/ \E d \in LifeStepTimes, b \in LifeBlocks : ReadOk(d, b)
    \/ \E d \in LifeStepTimes : ReadRaises(d)
    \/ Except
    \/ Features
    \/ Acquire
    \/ AppendClap
    \/ ProcessClaps
    \/ Release
    \/ Sleep

\* stop() once it has been called
StopRuns == StopStream \/ StopClose \/ StopTerminate

Host == StartOk \/ StartRaises \/ StopBegin \/ StopRuns

InitLife == ClapInit /\ AmbientInit /\ Constructed /\ RestInit

NextLife == Worker \/ Host

SpecLife == InitLife /\ [][NextLife]_vars

\* the worker thread is scheduled, and a stop() that was called runs on
SpecLifeFair == SpecLife /\ WF_vars(Worker) /\ WF_vars(StopRuns)

(***************************************************************************)
(* Helpers of the properties, written from the claims and independent of   *)
(* the operators above.                                                    *)
(***************************************************************************)
GapsWithin(s) ==
    \A i \in 1..(Len(s) - 1) :
        /\ s[i+1] - s[i] >= 120
        /\ s[i+1] - s[i] <= 600

Evaluated == ev.kind = "block"

Fired == Evaluated /\ ev.call # "none"

(***************************************************************************)
(* C1: any two set_mode calls made by process_claps are at least           *)
(* pattern_cooldown (1500 ms) apart, whatever claps were accepted between  *)
(* them.                                                                   *)
(***************************************************************************)
C1_CooldownBetweenFires ==
    \A i \in 1..Len(dispatch_log) : \A j \in 1..Len(dispatch_log) :
        i < j => dispatch_log[j][1] - dispatch_log[i][1] >= 1500

\* two gestures were dispatched and claps were accepted between them
C1_Witness ==
    /\ Len(dispatch_log) = 2
    /\ \E k \in 1..Len(accepted_log) :
          /\ accepted_log[k] > dispatch_log[1][1]
          /\ accepted_log[k] < dispatch_log[2][1]

(***************************************************************************)
(* C2: any two timestamps appended to the clap window are at least         *)
(* min_clap_interval (120 ms) apart, and an iteration that appends no clap *)
(* (a rejected candidate included) leaves last_peak_time unchanged.        *)
(***************************************************************************)
C2_DebounceInvariant ==
    /\ \A i \in 1..Len(accepted_log) : \A j \in 1..Len(accepted_log) :
          i < j => accepted_log[j] - accepted_log[i] >= 120
    /\ (ev.kind # "init" /\ ~ev.accepted) => last_peak_time = ev.prev_peak

\* a clap accepted 200 ms after the previous one
C2_Witness ==
    /\ ev.accepted
    /\ Len(accepted_log) >= 2
    /\ accepted_log[Len(accepted_log)]
          - accepted_log[Len(accepted_log) - 1] = 200

(***************************************************************************)
(* C3: when process_claps evaluates a non-empty window outside cooldown,   *)
(* at least pattern_timeout after its last clap and with every gap valid,  *)
(* it makes one set_mode call chosen by the number of claps (1 Normal,     *)
(* 2 Relaxing, 3 or more Party), sets last_pattern_time to now and empties *)
(* the window.                                                             *)
(***************************************************************************)
C3_Expected(n) ==
    IF n = 1 THEN "Normal" ELSE IF n = 2 THEN "Relaxing" ELSE "Party"

C3_ClassifyByCount ==
    ( /\ Evaluated
      /\ Len(ev.win) > 0
      /\ now - ev.prev_pattern >= 1500
      /\ now - ev.win[Len(ev.win)] >= 800
      /\ GapsWithin(ev.win) )
    => /\ ev.call = C3_Expected(Len(ev.win))
       /\ dispatch_log # <<>>
       /\ dispatch_log[Len(dispatch_log)] = <<now, C3_Expected(Len(ev.win))>>
       /\ last_pattern_time = now
       /\ claps = <<>>

\* a window of exactly three validly spaced claps was evaluated and fired
C3_Witness ==
    /\ Fired
    /\ Len(ev.win) = 3
    /\ GapsWithin(ev.win)
    /\ ev.call = "Party"

(***************************************************************************)
(* C4: three accepted claps with both gaps within [120, 600] ms, no other  *)
(* clap and no cooldown: the gesture fired at the evaluation that follows  *)
(* the timeout (here: less than the longest loop iteration after it) is    *)
(* Party, all three claps being still in the window.                       *)
(***************************************************************************)
C4_TripleFiresParty ==
    ( /\ Evaluated
      /\ Len(accepted_log) = 3
      /\ GapsWithin(accepted_log)
      /\ now - accepted_log[3] >= 800
      /\ now - accepted_log[3] < 1000 )
    => /\ Len(dispatch_log) = 1
       /\ dispatch_log[1][2] = "Party"

(***************************************************************************)
(* C5: one accepted clap, or two with a gap within [120, 600] ms, and no   *)
(* other clap: once process_claps has run at least pattern_timeout after   *)
(* the last clap, exactly one set_mode call has been made, Normal for one  *)
(* clap and Relaxing for two.                                              *)
(***************************************************************************)
C5_SingleAndDoubleFire ==
    ( /\ Evaluated
      /\ Len(accepted_log) \in {1, 2}
      /\ GapsWithin(accepted_log)
      /\ now - accepted_log[Len(accepted_log)] >= 800 )
    => /\ Len(dispatch_log) = 1
       /\ dispatch_log[1][2] = C3_Expected(Len(accepted_log))

(***************************************************************************)
(* C6: when process_claps evaluates a window (outside cooldown, timeout    *)
(* elapsed) with a gap below 120 ms or above 600 ms, it empties the        *)
(* window, calls set_mode not at all and leaves last_pattern_time and the  *)
(* light unchanged.                                                        *)
(***************************************************************************)
C6_InvalidPatternDiscarded ==
    ( /\ Evaluated
      /\ Len(ev.win) > 0
      /\ now - ev.prev_pattern >= 1500
      /\ now - ev.win[Len(ev.win)] >= 800
      /\ ~GapsWithin(ev.win) )
    => /\ claps = <<>>
       /\ ev.call = "none"
       /\ \A k \in 1..Len(dispatch_log) : dispatch_log[k][1] < now
       /\ last_pattern_time = ev.prev_pattern

\* claps at t, t + 200 and t + 900 were evaluated and discarded
C6_Witness ==
    /\ Evaluated
    /\ Len(ev.win) = 3
    /\ ev.win[2] - ev.win[1] = 200
    /\ ev.win[3] - ev.win[2] = 700
    /\ now - ev.win[3] >= 800
    /\ now - ev.prev_pattern >= 1500
    /\ claps = <<>>
    /\ ev.call = "none"

(***************************************************************************)
(* C7: every accepted clap is part of at most one dispatched gesture: a    *)
(* set_mode call leaves the window empty and the window it fires for holds *)
(* no clap of an earlier call; a window of four claps 200 ms apart fires   *)
(* Party, once.                                                            *)
(***************************************************************************)
C7_Burst(s) ==
    /\ Len(s) = 4
    /\ \A i \in 1..3 : s[i+1] - s[i] = 200

C8_NoDecisionWhileGrowing ==
    ( /\ Evaluated
      /\ Len(ev.before) > 0
      /\ now - ev.before[Len(ev.before)] < 800 )
    => /\ ev.call = "none"
       /\ \A k \in 1..Len(dispatch_log) : dispatch_log[k][1] < now
       /\ last_pattern_time = ev.prev_pattern
       /\ claps = SelectSeq(ev.before, LAMBDA x : now - x < 2000)

\* two claps, the last 700 ms old, outside cooldown: both stay pending
C8_Witness ==
    /\ Evaluated
    /\ Len(ev.before) = 2
    /\ now - ev.before[2] = 700
    /\ now - ev.prev_pattern >= 1500
    /\ claps = ev.before

(***************************************************************************)
(* C9: a single pending clap, no further clap being accepted, is resolved  *)
(* by a gesture: it never leaves the window without a set_mode call.       *)
(***************************************************************************)
C9_PendingClapResolved ==
    ( /\ Evaluated
      /\ Len(ev.before) = 1
      /\ claps = <<>> )
    => ev.call = "Normal"

(***************************************************************************)
(* C10: after the pruning step of every process_claps call, and so after   *)
(* the call, every clap of the window is less than 2000 ms old, in         *)
(* whichever branch the call returns.                                      *)
(***************************************************************************)
C10_PruningInvariant ==
    Evaluated =>
       /\ \A i \in 1..Len(ev.win) : now - ev.win[i] < 2000
       /\ \A i \in 1..Len(claps) : now - claps[i] < 2000
       /\ \A i \in 1..Len(ev.before) :
             now - ev.before[i] >= 2000 =>
                \A k \in 1..Len(ev.win) : ev.win[k] # ev.before[i]

\* a call that returned while the pattern was accumulating pruned a clap
C10_Witness ==
    /\ Evaluated
    /\ Len(ev.win) > 0
    /\ Len(ev.win) < Len(ev.before)
    /\ now - ev.win[Len(ev.win)] < 800
    /\ claps = ev.win

(***************************************************************************)
(* C12: a block whose peak exceeds dynamic_threshold but which the         *)
(* validator rejects appends no timestamp to the clap window and leaves    *)
(* last_peak_time as it was, whatever blocks came before.                  *)
(***************************************************************************)
C12_RejectedCandidateIgnored ==
    (Evaluated /\ ev.candidate /\ ~ev.shape) =>
        /\ last_peak_time = ev.prev_peak
        /\ \A i \in 1..Len(ev.before) : ev.before[i] # now
        /\ \A i \in 1..Len(accepted_log) : accepted_log[i] # now

\* a rejected candidate that the debounce alone would have let through,
\* arriving while an earlier clap is pending
C12_Witness ==
    /\ Evaluated /\ ev.candidate /\ ~ev.shape
    /\ now - ev.prev_peak > 120
    /\ Len(ev.before) > 0

(***************************************************************************)
(* C16: the cooldown suppresses trailing echoes.  A clap accepted while    *)
(* now - last_pattern_time < pattern_cooldown never becomes part of a      *)
(* pattern that fires: every set_mode call after the first has in its      *)
(* window a clap accepted once the cooldown of the previous call was over. *)
(***************************************************************************)
C16_EchoNeverFires ==
    (Fired /\ Len(dispatch_log) >= 2) =>
        \E i \in 1..Len(ev.win) :
            ev.win[i] - dispatch_log[Len(dispatch_log) - 1][1] >= 1500

(***************************************************************************)
(* C13: when stream.read raises while running is True the loop goes on.    *)
(* The iteration appends no clap, dispatches nothing and leaves the clap   *)
(* window, last_peak_time, last_pattern_time and the calibrator fields as  *)
(* it found them; the worker goes to the sleep and the next loop test, and *)
(* it only ever leaves the loop when running is False.                     *)
(***************************************************************************)
C13_ReadErrorSkipsIteration ==
    /\ wpc = "done" => ~running
    /\ iter.kind = "error" =>
         /\ wpc \in {"except", "sleep", "test", "done"}
         /\ claps = iter.claps
         /\ last_peak_time = iter.last_peak_time
         /\ last_pattern_time = iter.last_pattern_time
         /\ ambient_samples = iter.ambient_samples
         /\ calibration_frames = iter.calibration_frames
         /\ is_calibrating = iter.is_calibrating
         /\ ambient_level = iter.ambient_level
         /\ dynamic_threshold = iter.dynamic_threshold
         /\ Len(accepted_log) = iter.accepted
         /\ Len(dispatch_log) = iter.dispatched

\* a read of the open stream raised while a clap whose timeout has passed
\* was waiting in the window, and the worker is back at the loop test
C13_Witness ==
    /\ iter.kind = "error" /\ iter.stream = "open"
    /\ running /\ wpc = "test"
    /\ calibration_frames > 0
    /\ Len(claps) > 0 /\ now - Last(claps) >= 800

\* the iteration after a failed read is an ordinary one
NormalAfterError ==
    /\ iter.prev_kind = "error" /\ iter.kind = "block"
    /\ wpc = "sleep"
    /\ Len(accepted_log) > iter.accepted

StopCalled ==
    /\ start_result = "ok"
    /\ hpc \in {"stop_stream", "close", "terminate", "stopped"}

Released == wpc = "done" /\ stream = "closed" /\ pa = "terminated"

(***************************************************************************)
(* C14: after stop() has been called on a started controller the worker    *)
(* eventually leaves its loop, also when its pending read raises, and the  *)
(* stream is stopped and closed and PyAudio terminated.                    *)
(***************************************************************************)
C14_StopEndsWorker == StopCalled ~> Released

\* everything is released and the last thing the worker met was a read
\* that raised on the stream stop() had already stopped or closed
C14_Witness ==
    /\ StopCalled /\ Released
    /\ iter.kind = "error" /\ iter.stream # "open"

(***************************************************************************)
(* C15: if opening the stream fails in start(), the error reaches the      *)
(* caller, running stays False and no worker thread exists; the host goes  *)
(* on, and its later stop() touches no stream (stream is still None), runs *)
(* to its end and nothing is ever dispatched.                              *)
(***************************************************************************)
C15_FailedStartLeavesNothing ==
    start_result = "raised" =>
        /\ ~running
        /\ wpc = "none"
        /\ stream = "none"
        /\ hpc \in {"no_audio", "terminate", "stopped"}
        /\ hpc = "terminate" => ENABLED StopTerminate
        /\ iterations = 0
        /\ accepted_log = <<>>
        /\ dispatch_log = <<>>

\* stop() has returned after a failed start
C15_Witness == start_result = "raised" /\ hpc = "stopped"

(***************************************************************************)
(* C18: every set_mode call of process_claps is made while the worker does *)
(* not hold self.lock.                                                     *)
(***************************************************************************)
C18_DispatchOutsideLock ==
    \A i \in 1..Len(calls_locked) : ~calls_locked[i]

(***************************************************************************)
(* C21: the clap window is read and written only while self.lock is held   *)
(* (the append of listen; the prune, inspection and clear of               *)
(* process_claps), and the lock is free whenever the worker is about to    *)
(* read, blocked in stream.read or in the sleep between iterations.        *)
(***************************************************************************)
C21_WindowUnderLock ==
    /\ [](wpc \in {"appending", "processing"} => lock = "worker")
    /\ [](wpc \in {"read", "reading", "sleep"} => lock = "free")
    /\ [][claps' # claps => lock = "worker"]_vars

\* process_claps is about to inspect, under the lock, a window that holds
\* the clap appended under the lock in this iteration
C21_Witness ==
    /\ wpc = "processing" /\ lock = "worker"
    /\ Len(claps) > 0 /\ Last(claps) = now

(***************************************************************************)
(* C27: the worker never calls stream.read on a stream that stop() has     *)
(* already stopped and closed, under every interleaving of stop() with the *)
(* loop.                                                                   *)
(***************************************************************************)
C27_NoReadAfterClose == wpc = "reading" => iter.stream # "closed"

Increasing(s) == \A i \in 1..(Len(s) - 1) : s[i] < s[i+1]

(***************************************************************************)
(* C22: the clap window is strictly increasing in every reachable state:   *)
(* an appended timestamp is greater than every timestamp already there     *)
(* (the window handed to process_claps), and pruning and clearing keep the *)
(* order (the window after the prune, the window left behind).             *)
(***************************************************************************)
C22_WindowIncreasing ==
    /\ Increasing(claps)
    /\ Increasing(ev.before)
    /\ Increasing(ev.win)

\* the prune dropped the oldest clap of a window and left two behind
C22_Witness ==
    /\ Evaluated
    /\ Len(ev.win) >= 2
    /\ Len(ev.before) > Len(ev.win)

(***************************************************************************)
(* C24: every gesture fired by the clap engine takes effect on the lights  *)
(* when the worker is the only caller of set_mode: the call is not         *)
(* swallowed by the mode debounce (it changes the mode now, or the last    *)
(* change is at least mode_debounce_time old), and right after the fire    *)
(* the mode of the light controller is the dispatched mode.                *)
(***************************************************************************)
C24_FireTakesEffect ==
    Fired =>
        /\ mode = ev.call
        /\ last_mode_change = now \/ now - last_mode_change >= 500

\* a second fire, for another mode, after a first fire that changed the mode
C24_Witness ==
    /\ Fired
    /\ Len(dispatch_log) >= 2
    /\ dispatch_log[Len(dispatch_log) - 1][2] # "Normal"
    /\ ev.call # dispatch_log[Len(dispatch_log) - 1][2]

(***************************************************************************)
(* Helpers of the validator properties: the peak of a block stated         *)
(* directly, and the two tails a sentence about "the 100 samples           *)
(* following the peak" can mean.                                           *)
(***************************************************************************)
\* the index (from 0) of the first sample of largest absolute value
PeakIndex(data) ==
    CHOOSE i \in 0..(Len(data) - 1) :
        \A j \in 0..(Len(data) - 1) :
            /\ Abs(data[j + 1]) <= Abs(data[i + 1])
            /\ j < i => Abs(data[j + 1]) < Abs(data[i + 1])

LateAttack(data) == 10 * PeakIndex(data) > 7 * Len(data)

\* at least 100 samples lie after the peak sample
HundredFollow(data) == Len(data) - 1 - PeakIndex(data) >= 100

\* mean(|data[from..to]|) / (peak + 1) > 0.5, for the 50 samples from..to
SlowDecay(data, from, peak) ==
    2 * AbsSum(data, from, from + 49) > 50 * (peak + 1)

Validated == verdict # "none"

\* C23 as stated: the verdict is "reject" exactly when the peak is past 70%
\* of the block, or 100 samples follow the peak and the last 50 of those
\* 100 (the samples 51 .. 100 after the peak) decay slowly
C23_AsStated ==
    Validated =>
        (verdict = "reject" <=>
            \/ LateAttack(vblock)
            \/ /\ HundredFollow(vblock)
               /\ SlowDecay(vblock, PeakIndex(vblock) + 51, max_abs(vblock)))

\* C23 amended: the verdict is "reject" exactly when the peak is past 70% of
\* the block, or 100 samples follow the peak and the last 50 of the 100
\* samples that start at the peak sample itself (the samples 50 .. 99 after
\* the peak) decay slowly; and the call leaves the block as it was
C23_ValidatorVerdict ==
    /\ [](Validated =>
            (verdict = "reject" <=>
                \/ LateAttack(vblock)
                \/ /\ HundredFollow(vblock)
                   /\ SlowDecay(vblock, PeakIndex(vblock) + 50,
                                max_abs(vblock))))
    /\ [][verdict = "none" /\ verdict' # "none" => vblock' = vblock]_vars

\* a block rejected for its tail 50 .. 99 whose tail 51 .. 100 is quiet
C23_Witness ==
    /\ verdict = "reject"
    /\ ~LateAttack(vblock)
    /\ HundredFollow(vblock)
    /\ ~SlowDecay(vblock, PeakIndex(vblock) + 51, max_abs(vblock))

(***************************************************************************)
(* Helpers of the LightController properties.                              *)
(***************************************************************************)
BrightnessOps ==
    {"set_brightness", "increase_brightness", "decrease_brightness"}

\* the last call was a set_mode that got past the mode debounce
SetModeNotIgnored ==
    /\ lcall.op = "set_mode"
    /\ lcall.at - lcall.before.last_mode_change >= mode_debounce_time

\* C25: after a set_mode call that the mode debounce did not ignore the
\* light is on, whatever calls came before
C25_SetModeTurnsOn == SetModeNotIgnored => is_on

\* C29: brightness is an integer between 0 and 100 after every call, and a
\* brightness call made while the light is off changes no field
C29_BrightnessRange ==
    /\ brightness \in 0..100
    /\ (lcall.op \in BrightnessOps /\ ~lcall.before.is_on)
            => LightFields = lcall.before

\* a brightness call on a light that is off, after an earlier call was
\* clamped to 100
C29_Witness ==
    /\ lcall.op \in BrightnessOps
    /\ ~lcall.before.is_on
    /\ lcall.arg > 100
    /\ brightness = 100

(***************************************************************************)
(* Helpers of the gesture properties.                                      *)
(***************************************************************************)
\* the last frame made process_frame call turn_on or turn_off
Switched == gev.called \in {"turn_on", "turn_off"}

\* C28: process_frame calls turn_on or turn_off only at the end of a run of
\* frames that all show the same on/off gesture and that spans at least
\* gesture_hold_time; a frame with no hand, the pinch, an unrecognised hand
\* or the other gesture starts the run afresh
C28_HeldWithoutInterruption ==
    Switched =>
        /\ run_gesture = gev.frame
        /\ now - run_start >= gesture_hold_time

\* C26: whatever the interleaving of the audio worker and the main thread,
\* two successive changes of is_on are at least toggle_debounce_time apart
C26_ChangesApart ==
    Len(change_times) >= 2 =>
        change_times[2] - change_times[1] >= toggle_debounce_time

(***************************************************************************)
(* Helpers of the calibrator properties.                                   *)
(***************************************************************************)
SteadyBlock == aev.block # NoBlock /\ ~aev.prev_calibrating

CalibrationBlock == aev.block # NoBlock /\ aev.prev_calibrating

AmbientUnchanged ==
    /\ ambient_samples = aev.prev_samples
    /\ ambient_level = aev.prev_level
    /\ dynamic_threshold = aev.prev_threshold

\* ambient_level is the mean of the buffer
LevelIsMean ==
    /\ Len(ambient_samples) > 0
    /\ ambient_level.num * Len(ambient_samples)
         = SeqSum(ambient_samples) * ambient_level.den

(***************************************************************************)
(* C11: in every reachable state of the calibrator (construction, the 30   *)
(* calibration blocks, every steady-state update) dynamic_threshold equals *)
(* max(base_threshold, ambient_level * threshold_multiplier), and so is    *)
(* never below base_threshold (2000).                                      *)
(***************************************************************************)
C11_ThresholdFromAmbient ==
    /\ dynamic_threshold.num >= 2000 * dynamic_threshold.den
    /\ IF 3 * ambient_level.num >= 2000 * ambient_level.den
       THEN dynamic_threshold.num * ambient_level.den
              = 3 * ambient_level.num * dynamic_threshold.den
       ELSE dynamic_threshold.num = 2000 * dynamic_threshold.den

\* a steady-state update has moved a threshold that is above the floor
C11_Witness ==
    /\ SteadyBlock
    /\ dynamic_threshold # aev.prev_threshold
    /\ dynamic_threshold.num > 2000 * dynamic_threshold.den

(***************************************************************************)
(* C17: in steady state a block whose peak exceeds dynamic_threshold (the  *)
(* value before and the value after the block's own update) never has its  *)
(* RMS appended to the ambient buffer and never changes ambient_level or   *)
(* dynamic_threshold.                                                      *)
(***************************************************************************)
C17_CandidateNeverAdmitted ==
    (/\ SteadyBlock
     /\ aev.candidate
     /\ aev.block.peak * aev.prev_threshold.den > aev.prev_threshold.num)
    => AmbientUnchanged

(***************************************************************************)
(* C19: calibration is exactly the first 30 blocks read.  Each of them has *)
(* its RMS appended whatever its loudness and has its peak compared with   *)
(* base_threshold; the 30th sets ambient_level to the mean of the buffer,  *)
(* seeds dynamic_threshold from it and ends calibration for good;          *)
(* is_calibrating holds exactly while calibration_frames < 30.             *)
(***************************************************************************)
C19_CalibrationProtocol ==
    /\ is_calibrating <=> calibration_frames < 30
    /\ CalibrationBlock =>
         /\ ambient_samples = Append(aev.prev_samples, aev.block.rms)
         /\ calibration_frames = aev.prev_frames + 1
         /\ aev.candidate <=> aev.block.peak > 2000
         /\ calibration_frames = 30 =>
              LevelIsMean /\ C11_ThresholdFromAmbient /\ ~is_calibrating
         /\ calibration_frames < 30 =>
              /\ ambient_level = aev.prev_level
              /\ dynamic_threshold = aev.prev_threshold
    /\ SteadyBlock => ~is_calibrating /\ calibration_frames = 30

\* C19 with the 30th block compared with the threshold it has just seeded
CalibrationProtocolAsCoded ==
    /\ is_calibrating <=> calibration_frames < 30
    /\ CalibrationBlock =>
         /\ ambient_samples = Append(aev.prev_samples, aev.block.rms)
         /\ calibration_frames = aev.prev_frames + 1
         /\ aev.candidate <=>
              aev.block.peak * dynamic_threshold.den > dynamic_threshold.num
         /\ calibration_frames = 30 =>
              LevelIsMean /\ C11_ThresholdFromAmbient /\ ~is_calibrating
         /\ calibration_frames < 30 =>
              /\ ambient_level = aev.prev_level
              /\ dynamic_threshold = aev.prev_threshold
    /\ SteadyBlock => ~is_calibrating /\ calibration_frames = 30

\* 30 blocks of RMS 400 give ambient_level 400 and the floor threshold
Scenario4 ==
    (/\ calibration_frames = 30
     /\ \A i \in 1..Len(ambient_samples) : ambient_samples[i] = 400)
    => /\ ambient_level.num = 400 * ambient_level.den
       /\ dynamic_threshold.num = 2000 * dynamic_threshold.den

(***************************************************************************)
(* C20: in steady state a block with rms >= dynamic_threshold * 0.5 leaves *)
(* ambient_samples, ambient_level and dynamic_threshold unchanged; a block *)
(* with rms < dynamic_threshold * 0.5 appends its RMS, evicting the oldest *)
(* entry when 50 are held (the buffer never exceeds 50 and is never empty  *)
(* when the mean is taken), and recomputes ambient_level and               *)
(* dynamic_threshold from the updated buffer before the block's peak is    *)
(* compared with the threshold.                                            *)
(***************************************************************************)
C20_SteadyStateUpdate ==
    /\ Len(ambient_samples) <= 50
    /\ SteadyBlock =>
         IF 2 * aev.block.rms * aev.prev_threshold.den
              >= aev.prev_threshold.num
         THEN AmbientUnchanged
         ELSE /\ ambient_samples =
                   Append(IF Len(aev.prev_samples) = 50
                          THEN Tail(aev.prev_samples)
                          ELSE aev.prev_samples, aev.block.rms)
              /\ LevelIsMean
              /\ C11_ThresholdFromAmbient
              /\ aev.candidate <=>
                   aev.block.peak * dynamic_threshold.den
                     > dynamic_threshold.num

\* a quiet block met a full buffer and pushed out a different value
C20_Witness ==
    /\ SteadyBlock
    /\ Len(aev.prev_samples) = 50
    /\ ambient_samples # aev.prev_samples
    /\ aev.prev_samples[1] # aev.block.rms
    /\ dynamic_threshold # aev.prev_threshold

\* a loud block in steady state was kept out of the buffer
LoudBlockSkipped ==
    /\ SteadyBlock
    /\ 2 * aev.block.rms * aev.prev_threshold.den >= aev.prev_threshold.num

====
